---- MODULE Spec2Model ----
(***************************************************************************)
(* The futex-based ThreadParker of parking_lot's core                      *)
(* (core/src/thread_parker/linux.rs) together with the calling contract of *)
(* the queue-based lock algorithm that drives it.                          *)
(*                                                                         *)
(* Every parker p has one waiter thread (the owner that parks on it) and   *)
(* one waker thread.  The parking word is modelled as a single coherent    *)
(* location: the relaxed store of prepare_park happens-before the release  *)
(* store of unpark_lock (both are made under the queue lock), so a load    *)
(* that returns a stale 1 is indistinguishable from a load made earlier.   *)
(* Non-atomic shared data is modelled by versions and per-thread views: a  *)
(* release store publishes the writer's view, an acquire load that reads   *)
(* it joins that view, and a plain read returns any version not older      *)
(* than the reader's view.                                                 *)
(*                                                                         *)
(* Time is counted in ticks, TicksPerSec ticks to the second (the scaled   *)
(* stand-in of 10^9 nanoseconds); libc::time_t is a signed integer of      *)
(* timeBits bits and Duration::as_secs() an unsigned one of WideBits bits  *)
(* (the scaled stand-ins of i32/i64 and u64).                              *)
(***************************************************************************)
EXTENDS Integers, Sequences, FiniteSets, TLC

\* ---------------------------------------------------------------- bounds
NParkers == 2
MaxIdleCalls == 2
MaxCycles == 2
MaxTime == 3
TicksPerSec == 2
NarrowBits == 3
WideBits == 5

Parkers == 1..NParkers
\* The single parker of the detailed specification.
Solo == {1}

\* A deadline whose distance from every clock value in 0..MaxTime has a
\* whole-seconds count above the maximum of a NarrowBits-bit time_t.
FarDeadline == MaxTime + (2 ^ (NarrowBits - 1)) * TicksPerSec
\* A clock value past every deadline; the clock's last point, which stands
\* for all later times.
LateTime == FarDeadline + 1
TimePoints == (0..MaxTime) \cup {LateTime}
Deadlines == (0..MaxTime) \cup {FarDeadline}
NoDeadline == -1

Max(a, b) == IF a >= b THEN a ELSE b

\* ------------------------------------------------- Duration and timespec
as_secs(d) == d \div TicksPerSec
subsec_nanos(d) == d % TicksPerSec

\* `x as libc::time_t`: truncation to the width, two's complement.
AsTimeT(x, bits) ==
    LET m == x % (2 ^ bits)
    IN  IF m >= 2 ^ (bits - 1) THEN m - 2 ^ bits ELSE m

\* `v as u64`: sign extension to the wide unsigned type.
AsU64(v) == v % (2 ^ WideBits)

\* if diff.as_secs() as libc::time_t as u64 != diff.as_secs()
Overflowed(diff, bits) == AsU64(AsTimeT(as_secs(diff), bits)) # as_secs(diff)

\* libc::timespec { tv_sec: diff.as_secs() as time_t, tv_nsec: diff.subsec_nanos() }
Timespec(diff, bits) ==
    [tv_sec |-> AsTimeT(as_secs(diff), bits), tv_nsec |-> subsec_nanos(diff)]

\* Option<libc::timespec>
None == <<>>
Some(x) == <<x>>
is_some(o) == Len(o) = 1

\* The kernel's reading of a relative timeout, in ticks.
TimeoutTicks(ts) == ts.tv_sec * TicksPerSec + ts.tv_nsec

\* ------------------------------------------------------------ the state
VARIABLES
    futex,      \* futex[p]: the parking word of parker p
    alive,      \* alive[p]: parker p's memory is allocated
    waiter,     \* waiter[p]: the waiter thread's position and locals
    waker,      \* waker[p]: the waker thread's position and last wake result
    qlock,      \* holder of the queue lock: <<>> or <<role, p>>
    inQueue,    \* inQueue[p]: p's node is published in the queue
    now,        \* the monotonic clock
    timeBits,   \* width of libc::time_t on this build
    wakeAt,     \* wakeAt[p]: expiry of the kernel timer of p's wait, or -1
    data,       \* data[p]: latest version of the shared data of p's waker
    rel,        \* rel[p]: data version published with the parking word
    lockView,   \* lockView[p]: data version published with the queue lock
    unlocked,   \* unlocked[p]: unpark_lock ran in p's current park cycle
    uaf         \* some thread dereferenced a freed parker

vars == <<futex, alive, waiter, waker, qlock, inQueue, now, timeBits, wakeAt,
          data, rel, lockView, unlocked, uaf>>

NoHolder == <<>>
W(p) == <<"waiter", p>>
K(p) == <<"waker", p>>

WaiterInit ==
    [pc |-> "idle", mode |-> "none", deadline |-> NoDeadline, lastLoad |-> -1,
     nowRead |-> -1, ts |-> None, r |-> "none", result |-> "none",
     tout |-> "none", cyclesLeft |-> 0, view |-> 0, seen |-> -1]

\* idleCalls counts the calls of unpark_lock made in a row, with no park
\* cycle begun in between, on a parker that has no waiter; snap is the
\* parker's state as the latest of them found it.
WakerInit == [pc |-> "idle", wakeRet |-> "none", idleCalls |-> 0, snap |-> <<>>]

InitWith(bits, cycles) ==
    /\ futex = [p \in Parkers |-> 0]
    /\ alive = [p \in Parkers |-> TRUE]
    /\ waiter = [p \in Parkers |-> [WaiterInit EXCEPT !.cyclesLeft = cycles]]
    /\ waker = [p \in Parkers |-> WakerInit]
    /\ qlock = NoHolder
    /\ inQueue = [p \in Parkers |-> FALSE]
    /\ now = 0
    /\ timeBits \in bits
    /\ wakeAt = [p \in Parkers |-> -1]
    /\ data = [p \in Parkers |-> 0]
    /\ rel = [p \in Parkers |-> 0]
    /\ lockView = [p \in Parkers |-> 0]
    /\ unlocked = [p \in Parkers |-> FALSE]
    /\ uaf = FALSE

Init == InitWith({NarrowBits, WideBits}, MaxCycles)

\* -------------------------------------------------- the code's conditions
\* (the loop condition inverted)
LoopCondInverted(v) == v = 0

\* while self.futex.load(Ordering::Acquire) != 0
LoopCond(v) == v # 0

\* (a deadline check that fires one tick early)
DeadlinePassedEarly(timeout, t) == timeout <= t + 1

\* if timeout <= now
DeadlinePassed(timeout, t) == timeout <= t

\* (timed_out that does not look at the word)
TimedOutValueAlways(v) == TRUE

\* self.futex.load(Ordering::Relaxed) != 0
TimedOutValue(v) == v # 0

\* (the load made with Ordering::Relaxed: it joins no view)
RelaxedView(p) == waiter[p].view

\* The view a load with Ordering::Acquire leaves the loading thread with.
AcquireView(p) == Max(waiter[p].view, rel[p])

\* The view a store with Ordering::Release publishes with the word.
ReleaseView(p) == data[p]

\* (a sleep that does not compare the word)
KernelBlocksAlways(v) == TRUE

\* (a wait on the wrong expected value)
KernelBlocksOnZero(v) == v = 0

\* FUTEX_WAIT's third argument: the kernel blocks the caller only while the
\* word still holds this value.
KernelBlocks(v) == v = 1

\* (the assertion on errno without EAGAIN)
WaitAssertNoAgain(r, ts) ==
    \/ r = "ok"
    \/ r = "EINTR"
    \/ (is_some(ts) /\ r = "ETIMEDOUT")

\* debug_assert!(r == 0 || r == -1) and the assertion on errno
WaitAssert(r, ts) ==
    \/ r = "ok"
    \/ r = "EINTR"
    \/ r = "EAGAIN"
    \/ (is_some(ts) /\ r = "ETIMEDOUT")

\* debug_assert!(r == 0 || r == 1 || r == -1); debug_assert_eq!(errno, EFAULT)
WakeAssert(r) == r \in {"0", "1", "EFAULT"}

\* A user-space access to parker p's word: it is a use after free when the
\* parker's memory is gone.
Deref(p) == uaf \/ ~alive[p]

\* ------------------------------------------ the waiter: calling contract
\* The waiter takes the queue lock to start a park cycle.
WLock(p) ==
    /\ waiter[p].pc \in {"idle", "done"}
    /\ alive[p]
    /\ waiter[p].cyclesLeft > 0
    /\ qlock = NoHolder
    /\ qlock' = W(p)
    /\ waiter' = [waiter EXCEPT ![p] =
            [WaiterInit EXCEPT !.pc = "locked",
                               !.cyclesLeft = waiter[p].cyclesLeft - 1,
                               !.view = Max(waiter[p].view, lockView[p])]]
    /\ waker' = [waker EXCEPT ![p].idleCalls = 0]
    /\ UNCHANGED <<futex, alive, inQueue, now, timeBits, wakeAt, data,
                   rel, lockView, unlocked, uaf>>

\* (prepare_park written as an increment of the word)
PrepareParkIncrement(p) ==
    /\ waiter[p].pc = "locked"
    /\ futex' = [futex EXCEPT ![p] = @ + 1]
    /\ rel' = [rel EXCEPT ![p] = 0]
    /\ unlocked' = [unlocked EXCEPT ![p] = FALSE]
    /\ uaf' = Deref(p)
    /\ waiter' = [waiter EXCEPT ![p].pc = "prepared"]
    /\ UNCHANGED <<alive, waker, qlock, inQueue, now, timeBits, wakeAt, data,
                   lockView>>

\* (prepare_park without its store)
PrepareParkNoStore(p) ==
    /\ waiter[p].pc = "locked"
    /\ rel' = [rel EXCEPT ![p] = 0]
    /\ unlocked' = [unlocked EXCEPT ![p] = FALSE]
    /\ uaf' = Deref(p)
    /\ waiter' = [waiter EXCEPT ![p].pc = "prepared"]
    /\ UNCHANGED <<futex, alive, waker, qlock, inQueue, now, timeBits, wakeAt,
                   data, lockView>>

\* ThreadParker::prepare_park: self.futex.store(1, Ordering::Relaxed)
PreparePark(p) ==
    /\ waiter[p].pc = "locked"
    /\ futex' = [futex EXCEPT ![p] = 1]
    /\ rel' = [rel EXCEPT ![p] = 0]
    /\ unlocked' = [unlocked EXCEPT ![p] = FALSE]
    /\ uaf' = Deref(p)
    /\ waiter' = [waiter EXCEPT ![p].pc = "prepared"]
    /\ UNCHANGED <<alive, waker, qlock, inQueue, now, timeBits, wakeAt, data,
                   lockView>>

\* The waiter publishes its node, releases the queue lock and calls `call`
\* with the deadline d.
Enqueue(p, call, d) ==
    /\ waiter[p].pc = "prepared"
    /\ inQueue' = [inQueue EXCEPT ![p] = TRUE]
    /\ qlock' = NoHolder
    /\ lockView' = [lockView EXCEPT ![p] = Max(lockView[p], waiter[p].view)]
    /\ waiter' = [waiter EXCEPT ![p].pc = "load", ![p].mode = call,
                                ![p].deadline = d]
    /\ UNCHANGED <<futex, alive, waker, now, timeBits, wakeAt, data, rel,
                   unlocked, uaf>>

EnqueuePark(p) == Enqueue(p, "park", NoDeadline)

EnqueueParkUntil(p) == \E d \in Deadlines : Enqueue(p, "until", d)

\* (the fallback's `return true` written as `return false`)
ParkLoadFallbackFalse(p) ==
    /\ waiter[p].pc = "load"
    /\ waiter[p].mode \in {"park", "fallback"}
    /\ uaf' = Deref(p)
    /\ waiter' = [waiter EXCEPT
            ![p].lastLoad = futex[p],
            ![p].view = AcquireView(p),
            ![p].pc = IF LoopCond(futex[p]) THEN "wait" ELSE "ret",
            ![p].ts = None,
            ![p].result = IF LoopCond(futex[p]) THEN "none"
                          ELSE IF waiter[p].mode = "fallback" THEN "false"
                          ELSE "true"]
    /\ UNCHANGED <<futex, alive, waker, qlock, inQueue, now, timeBits, wakeAt,
                   data, rel, lockView, unlocked>>

\* (park's loop written with the wait before the first check)
ParkLoadWaitFirst(p) ==
    /\ waiter[p].pc = "load"
    /\ waiter[p].mode \in {"park", "fallback"}
    /\ uaf' = Deref(p)
    /\ LET again == LoopCond(futex[p]) \/ waiter[p].lastLoad = -1
       IN  waiter' = [waiter EXCEPT
            ![p].lastLoad = futex[p],
            ![p].view = AcquireView(p),
            ![p].pc = IF again THEN "wait" ELSE "ret",
            ![p].ts = None,
            ![p].result = IF again THEN "none" ELSE "true"]
    /\ UNCHANGED <<futex, alive, waker, qlock, inQueue, now, timeBits, wakeAt,
                   data, rel, lockView, unlocked>>

\* ------------------------------------------------- ThreadParker::park
\* One evaluation of park's loop condition: the acquire load of the word and
\* the branch on it.  park_until's overflow fallback runs the same loop and
\* then returns true.
ParkLoad(p) ==
    /\ waiter[p].pc = "load"
    /\ waiter[p].mode \in {"park", "fallback"}
    /\ uaf' = Deref(p)
    /\ waiter' = [waiter EXCEPT
            ![p].lastLoad = futex[p],
            ![p].view = AcquireView(p),
            ![p].pc = IF LoopCond(futex[p]) THEN "wait" ELSE "ret",
            ![p].ts = None,
            ![p].result = IF LoopCond(futex[p]) THEN "none" ELSE "true"]
    /\ UNCHANGED <<futex, alive, waker, qlock, inQueue, now, timeBits, wakeAt,
                   data, rel, lockView, unlocked>>

\* (park_until checking the deadline before the word)
ParkUntilLoadDeadlineFirst(p) ==
    /\ waiter[p].pc = "load"
    /\ waiter[p].mode = "until"
    /\ uaf' = Deref(p)
    /\ waiter' = [waiter EXCEPT ![p] =
            IF DeadlinePassed(waiter[p].deadline, now)
            THEN [@ EXCEPT !.lastLoad = futex[p], !.nowRead = now,
                           !.pc = "ret", !.result = "false"]
            ELSE [@ EXCEPT !.lastLoad = futex[p],
                           !.view = AcquireView(p),
                           !.pc = IF LoopCond(futex[p]) THEN "clock" ELSE "ret",
                           !.result = IF LoopCond(futex[p]) THEN "none"
                                      ELSE "true"]]
    /\ UNCHANGED <<futex, alive, waker, qlock, inQueue, now, timeBits, wakeAt,
                   data, rel, lockView, unlocked>>

\* ------------------------------------------- ThreadParker::park_until
\* One evaluation of park_until's loop condition.
ParkUntilLoad(p) ==
    /\ waiter[p].pc = "load"
    /\ waiter[p].mode = "until"
    /\ uaf' = Deref(p)
    /\ waiter' = [waiter EXCEPT
            ![p].lastLoad = futex[p],
            ![p].view = AcquireView(p),
            ![p].pc = IF LoopCond(futex[p]) THEN "clock" ELSE "ret",
            ![p].result = IF LoopCond(futex[p]) THEN "none" ELSE "true"]
    /\ UNCHANGED <<futex, alive, waker, qlock, inQueue, now, timeBits, wakeAt,
                   data, rel, lockView, unlocked>>

\* (the remaining duration of the previous iteration used again)
ParkUntilNowStaleDuration(p) ==
    /\ waiter[p].pc = "clock"
    /\ LET timeout == waiter[p].deadline
           diff == timeout - (IF waiter[p].nowRead >= 0 THEN waiter[p].nowRead
                              ELSE now)
       IN  waiter' = [waiter EXCEPT ![p] =
             IF DeadlinePassed(timeout, now)
             THEN [@ EXCEPT !.nowRead = now, !.pc = "ret", !.result = "false"]
             ELSE IF Overflowed(diff, timeBits)
             THEN [@ EXCEPT !.nowRead = now, !.pc = "load", !.mode = "fallback"]
             ELSE [@ EXCEPT !.nowRead = now, !.pc = "wait",
                            !.ts = Some(Timespec(diff, timeBits))]]
    /\ UNCHANGED <<futex, alive, waker, qlock, inQueue, now, timeBits, wakeAt,
                   data, rel, lockView, unlocked, uaf>>

\* The loop body up to the wait: Instant::now(), the deadline check, the
\* remaining duration, the overflow check and the timespec.
ParkUntilNow(p) ==
    /\ waiter[p].pc = "clock"
    /\ LET timeout == waiter[p].deadline
           diff == timeout - now
       IN  waiter' = [waiter EXCEPT ![p] =
             IF DeadlinePassed(timeout, now)
             THEN [@ EXCEPT !.nowRead = now, !.pc = "ret", !.result = "false"]
             ELSE IF Overflowed(diff, timeBits)
             THEN [@ EXCEPT !.nowRead = now, !.pc = "load", !.mode = "fallback"]
             ELSE [@ EXCEPT !.nowRead = now, !.pc = "wait",
                            !.ts = Some(Timespec(diff, timeBits))]]
    /\ UNCHANGED <<futex, alive, waker, qlock, inQueue, now, timeBits, wakeAt,
                   data, rel, lockView, unlocked, uaf>>

\* (futex_wait passing a null timeout whatever ts is)
FutexWaitNoTimeout(p) ==
    /\ waiter[p].pc = "wait"
    /\ LET sleeps == KernelBlocks(futex[p])
       IN  waiter' = [waiter EXCEPT
                ![p].pc = IF sleeps THEN "blocked" ELSE "woke",
                ![p].r = IF sleeps THEN "none" ELSE "EAGAIN"]
    /\ wakeAt' = [wakeAt EXCEPT ![p] = -1]
    /\ UNCHANGED <<futex, alive, waker, qlock, inQueue, now, timeBits, data,
                   rel, lockView, unlocked, uaf>>

\* ------------------------------------------- ThreadParker::futex_wait
\* The FUTEX_WAIT syscall up to the kernel's decision: an invalid timeout is
\* refused, a word that no longer holds 1 sends the caller back at once, and
\* otherwise the caller sleeps, with a timer when a timeout was given.
FutexWait(p) ==
    /\ waiter[p].pc = "wait"
    /\ LET ts == waiter[p].ts
           bad == is_some(ts) /\ ts[1].tv_sec < 0
           sleeps == ~bad /\ KernelBlocks(futex[p])
       IN  /\ waiter' = [waiter EXCEPT
                ![p].pc = IF sleeps THEN "blocked" ELSE "woke",
                ![p].r = IF bad THEN "EINVAL"
                         ELSE IF sleeps THEN "none" ELSE "EAGAIN"]
           /\ wakeAt' = [wakeAt EXCEPT ![p] =
                IF sleeps /\ is_some(ts) THEN now + TimeoutTicks(ts[1]) ELSE -1]
    /\ UNCHANGED <<futex, alive, waker, qlock, inQueue, now, timeBits, data,
                   rel, lockView, unlocked, uaf>>

\* A signal (or any spurious wake) ends the sleep: EINTR.
Interrupt(p) ==
    /\ waiter[p].pc = "blocked"
    /\ waiter' = [waiter EXCEPT ![p].pc = "woke", ![p].r = "EINTR"]
    /\ wakeAt' = [wakeAt EXCEPT ![p] = -1]
    /\ UNCHANGED <<futex, alive, waker, qlock, inQueue, now, timeBits, data,
                   rel, lockView, unlocked, uaf>>

\* The kernel timer of a timed wait expires: ETIMEDOUT.  LateTime stands for
\* every time from LateTime on, so a timer armed to end later expires there.
FutexTimeout(p) ==
    /\ waiter[p].pc = "blocked"
    /\ wakeAt[p] >= 0
    /\ now >= wakeAt[p] \/ now = LateTime
    /\ waiter' = [waiter EXCEPT ![p].pc = "woke", ![p].r = "ETIMEDOUT"]
    /\ wakeAt' = [wakeAt EXCEPT ![p] = -1]
    /\ UNCHANGED <<futex, alive, waker, qlock, inQueue, now, timeBits, data,
                   rel, lockView, unlocked, uaf>>

\* (a loop that trusts the backend: a wait that returned 0 ends the park)
FutexWaitReturnTrusting(p) ==
    /\ waiter[p].pc = "woke"
    /\ waiter' = [waiter EXCEPT
            ![p].pc = IF waiter[p].r = "ok" THEN "ret" ELSE "load",
            ![p].result = IF waiter[p].r = "ok" THEN "true" ELSE "none",
            ![p].ts = None,
            ![p].r = "none"]
    /\ UNCHANGED <<futex, alive, waker, qlock, inQueue, now, timeBits, wakeAt,
                   data, rel, lockView, unlocked, uaf>>

\* futex_wait after the syscall: the debug assertions on its outcome, then
\* back to the caller's loop.  A failed assertion panics in a debug build and
\* is skipped in a release build.
FutexWaitReturn(p) ==
    /\ waiter[p].pc = "woke"
    /\ \E next \in (IF WaitAssert(waiter[p].r, waiter[p].ts)
                    THEN {"load"} ELSE {"load", "panicked"}) :
          waiter' = [waiter EXCEPT ![p].pc = next, ![p].ts = None,
                                   ![p].r = "none"]
    /\ UNCHANGED <<futex, alive, waker, qlock, inQueue, now, timeBits, wakeAt,
                   data, rel, lockView, unlocked, uaf>>

\* ------------------------------- the waiter after park / park_until
\* The woken waiter reads the data its waker shared: a plain read, which
\* returns some version not older than the reader's view.
WRead(p) ==
    /\ \/ waiter[p].pc = "ret" /\ waiter[p].result = "true"
       \/ waiter[p].pc = "raced"
    /\ \E v \in waiter[p].view .. data[p] :
          waiter' = [waiter EXCEPT ![p].pc = "done", ![p].seen = v]
    /\ UNCHANGED <<futex, alive, waker, qlock, inQueue, now, timeBits, wakeAt,
                   data, rel, lockView, unlocked, uaf>>

\* park_until returned false: the waiter takes the queue lock again.
WRelock(p) ==
    /\ waiter[p].pc = "ret"
    /\ waiter[p].result = "false"
    /\ qlock = NoHolder
    /\ qlock' = W(p)
    /\ waiter' = [waiter EXCEPT ![p].pc = "relocked",
                                ![p].view = Max(waiter[p].view, lockView[p])]
    /\ UNCHANGED <<futex, alive, waker, inQueue, now, timeBits, wakeAt, data,
                   rel, lockView, unlocked, uaf>>

\* ThreadParker::timed_out: self.futex.load(Ordering::Relaxed) != 0
TimedOut(p) ==
    /\ waiter[p].pc = "relocked"
    /\ uaf' = Deref(p)
    /\ waiter' = [waiter EXCEPT
            ![p].pc = "checked",
            ![p].tout = IF TimedOutValue(futex[p]) THEN "true" ELSE "false"]
    /\ UNCHANGED <<futex, alive, waker, qlock, inQueue, now, timeBits, wakeAt,
                   data, rel, lockView, unlocked>>

\* On a genuine timeout the waiter removes its own node; either way it
\* releases the queue lock.
WConclude(p) ==
    /\ waiter[p].pc = "checked"
    /\ inQueue' = [inQueue EXCEPT ![p] =
                     IF waiter[p].tout = "true" THEN FALSE ELSE @]
    /\ qlock' = NoHolder
    /\ lockView' = [lockView EXCEPT ![p] = Max(lockView[p], waiter[p].view)]
    /\ waiter' = [waiter EXCEPT
            ![p].pc = IF waiter[p].tout = "true" THEN "done" ELSE "raced"]
    /\ UNCHANGED <<futex, alive, waker, now, timeBits, wakeAt, data, rel,
                   unlocked, uaf>>

\* The waiter's thread data, and the parker in it, is freed.
FreeParker(p) ==
    /\ waiter[p].pc \in {"idle", "done"}
    /\ alive[p]
    /\ alive' = [alive EXCEPT ![p] = FALSE]
    /\ waiter' = [waiter EXCEPT ![p].pc = "freed"]
    /\ UNCHANGED <<futex, waker, qlock, inQueue, now, timeBits, wakeAt, data,
                   rel, lockView, unlocked, uaf>>

\* ThreadParker::new, at the address of the freed parker: futex = 0
New(p) ==
    /\ waiter[p].pc = "freed"
    /\ alive' = [alive EXCEPT ![p] = TRUE]
    /\ futex' = [futex EXCEPT ![p] = 0]
    /\ rel' = [rel EXCEPT ![p] = 0]
    /\ waiter' = [waiter EXCEPT ![p].pc = "idle"]
    /\ UNCHANGED <<waker, qlock, inQueue, now, timeBits, wakeAt, data,
                   lockView, unlocked, uaf>>

\* Outside the contract: park or park_until called on a fresh parker, with
\* no prepare_park before it and no node in the queue.
ParkFresh(p, call, d) ==
    /\ waiter[p].pc = "idle"
    /\ alive[p]
    /\ waiter[p].cyclesLeft > 0
    /\ waiter' = [waiter EXCEPT ![p] =
            [WaiterInit EXCEPT !.pc = "load", !.mode = call, !.deadline = d,
                               !.cyclesLeft = waiter[p].cyclesLeft - 1,
                               !.view = waiter[p].view]]
    /\ waker' = [waker EXCEPT ![p].idleCalls = 0]
    /\ UNCHANGED <<futex, alive, qlock, inQueue, now, timeBits, wakeAt,
                   data, rel, lockView, unlocked, uaf>>

ParkFreshPark(p) == ParkFresh(p, "park", NoDeadline)

ParkFreshUntil(p) == \E d \in Deadlines : ParkFresh(p, "until", d)

\* thread_yield: thread::yield_now().  It touches no parker.
ThreadYield(p) ==
    /\ waiter[p].pc \in {"idle", "done"}
    /\ UNCHANGED vars

\* ------------------------------------------- the waker: calling contract
\* The waker takes the queue lock and removes the waiter's node.
KLock(p) ==
    /\ waker[p].pc = "idle"
    /\ qlock = NoHolder
    /\ inQueue[p]
    /\ qlock' = K(p)
    /\ inQueue' = [inQueue EXCEPT ![p] = FALSE]
    /\ waker' = [waker EXCEPT ![p].pc = "locked", ![p].idleCalls = 0]
    /\ UNCHANGED <<futex, alive, waiter, now, timeBits, wakeAt, data, rel,
                   lockView, unlocked, uaf>>

\* What a caller can observe of parker p: its word, its memory, its queue
\* node, its kernel timer, its waiter and the result of the last wake.
ParkerState(p) ==
    <<futex[p], alive[p], inQueue[p], wakeAt[p], waiter[p], waker[p].wakeRet>>

\* Outside the contract: a thread goes on to unpark_lock and unpark on a
\* parker that has no waiter, because it never parked or was unparked
\* already.  There is no node to remove and no data to share.
KLockIdle(p) ==
    /\ waker[p].pc = "idle"
    /\ waker[p].idleCalls < MaxIdleCalls
    /\ qlock = NoHolder
    /\ ~inQueue[p]
    /\ alive[p]
    /\ waiter[p].pc \in {"idle", "done"}
    /\ qlock' = K(p)
    /\ waker' = [waker EXCEPT ![p].pc = "wrote",
                              ![p].idleCalls = @ + 1,
                              ![p].snap = ParkerState(p)]
    /\ UNCHANGED <<futex, alive, waiter, inQueue, now, timeBits, wakeAt, data,
                   rel, lockView, unlocked, uaf>>

\* The waker writes the data it shares with the waiter.
KWrite(p) ==
    /\ waker[p].pc = "locked"
    /\ data' = [data EXCEPT ![p] = @ + 1]
    /\ waker' = [waker EXCEPT ![p].pc = "wrote"]
    /\ UNCHANGED <<futex, alive, waiter, qlock, inQueue, now, timeBits, wakeAt,
                   rel, lockView, unlocked, uaf>>

\* (unpark_lock written as a decrement of the word)
UnparkLockDecrement(p) ==
    /\ waker[p].pc = "wrote"
    /\ futex' = [futex EXCEPT ![p] = @ - 1]
    /\ rel' = [rel EXCEPT ![p] = ReleaseView(p)]
    /\ unlocked' = [unlocked EXCEPT ![p] = TRUE]
    /\ uaf' = Deref(p)
    /\ waker' = [waker EXCEPT ![p].pc = "handle_locked"]
    /\ UNCHANGED <<alive, waiter, qlock, inQueue, now, timeBits, wakeAt, data,
                   lockView>>

\* ThreadParker::unpark_lock: self.futex.store(0, Ordering::Release);
\* UnparkHandle { futex: &self.futex }
UnparkLock(p) ==
    /\ waker[p].pc = "wrote"
    /\ futex' = [futex EXCEPT ![p] = 0]
    /\ rel' = [rel EXCEPT ![p] = ReleaseView(p)]
    /\ unlocked' = [unlocked EXCEPT ![p] = TRUE]
    /\ uaf' = Deref(p)
    /\ waker' = [waker EXCEPT ![p].pc = "handle_locked"]
    /\ UNCHANGED <<alive, waiter, qlock, inQueue, now, timeBits, wakeAt, data,
                   lockView>>

\* The waker releases the queue lock, the handle in hand.
KUnlock(p) ==
    /\ waker[p].pc = "handle_locked"
    /\ qlock' = NoHolder
    /\ lockView' = [lockView EXCEPT ![p] = Max(lockView[p], data[p])]
    /\ waker' = [waker EXCEPT ![p].pc = "handle"]
    /\ UNCHANGED <<futex, alive, waiter, inQueue, now, timeBits, wakeAt, data,
                   rel, unlocked, uaf>>

\* (unpark asking FUTEX_WAKE to wake no thread)
UnparkNoWake(p) ==
    /\ waker[p].pc = "handle"
    /\ \E ret \in (IF alive[p] THEN {"0"} ELSE {"0", "EFAULT"}) :
          waker' = [waker EXCEPT ![p].pc = "idle", ![p].wakeRet = ret]
    /\ UNCHANGED <<futex, alive, waiter, qlock, inQueue, now, timeBits, wakeAt,
                   data, rel, lockView, unlocked, uaf>>

\* (unpark clearing the word through the handle before the wake)
UnparkStoring(p) ==
    /\ waker[p].pc = "handle"
    /\ futex' = [futex EXCEPT ![p] = 0]
    /\ uaf' = Deref(p)
    /\ \E ret \in (IF waiter[p].pc = "blocked" THEN {"1"}
                   ELSE IF alive[p] THEN {"0"} ELSE {"0", "EFAULT"}) :
          waker' = [waker EXCEPT ![p].pc = "idle", ![p].wakeRet = ret]
    /\ waiter' = [waiter EXCEPT ![p] =
            IF waiter[p].pc = "blocked"
            THEN [@ EXCEPT !.pc = "woke", !.r = "ok"] ELSE @]
    /\ wakeAt' = [wakeAt EXCEPT ![p] = -1]
    /\ UNCHANGED <<alive, qlock, inQueue, now, timeBits, data, rel, lockView,
                   unlocked>>

\* UnparkHandle::unpark: FUTEX_WAKE of one thread on the handle's address.
\* It wakes the thread sleeping there (1), finds none (0), or, the parker's
\* memory being gone, finds none or no such address (EFAULT).
Unpark(p) ==
    /\ waker[p].pc = "handle"
    /\ \E ret \in (IF waiter[p].pc = "blocked" THEN {"1"}
                   ELSE IF alive[p] THEN {"0"} ELSE {"0", "EFAULT"}) :
          /\ WakeAssert(ret)
          /\ waker' = [waker EXCEPT ![p].pc = "idle", ![p].wakeRet = ret]
    /\ waiter' = [waiter EXCEPT ![p] =
            IF waiter[p].pc = "blocked"
            THEN [@ EXCEPT !.pc = "woke", !.r = "ok"] ELSE @]
    /\ wakeAt' = [wakeAt EXCEPT ![p] = -1]
    /\ UNCHANGED <<futex, alive, qlock, inQueue, now, timeBits, data, rel,
                   lockView, unlocked, uaf>>

\* ------------------------------------------------------------ the clock
\* Instant::now() is monotonic: time moves to the next point.
Tick ==
    /\ \E t \in TimePoints :
          /\ t > now
          /\ \A u \in TimePoints : u > now => t <= u
          /\ now' = t
    /\ UNCHANGED <<futex, alive, waiter, waker, qlock, inQueue, timeBits,
                   wakeAt, data, rel, lockView, unlocked, uaf>>

\* ------------------------------------------------------- specifications
WaiterStep(p) ==
    \/ WLock(p) \/ PreparePark(p) \/ EnqueuePark(p) \/ EnqueueParkUntil(p)
    \/ ParkLoad(p) \/ ParkUntilLoad(p) \/ ParkUntilNow(p)
    \/ FutexWait(p) \/ FutexWaitReturn(p)
    \/ WRead(p) \/ WRelock(p) \/ TimedOut(p) \/ WConclude(p)

WakerStep(p) == KLock(p) \/ KWrite(p) \/ UnparkLock(p) \/ KUnlock(p) \/ Unpark(p)

Next ==
    \/ \E p \in Solo :
          \/ WaiterStep(p)
          \/ WakerStep(p)
          \/ Interrupt(p) \/ FutexTimeout(p)
          \/ FreeParker(p) \/ New(p)
          \/ ThreadYield(p)
    \/ Tick

Spec == Init /\ [][Next]_vars

\* park_until's conversion of the remaining duration, on its own: a thread
\* about to read the clock at time 0, for every remaining duration that a
\* Duration's u64 seconds and its nanoseconds can hold, on either width of
\* time_t.
MaxDuration == (2 ^ WideBits) * TicksPerSec - 1

InitT ==
    /\ futex = [p \in Parkers |-> IF p \in Solo THEN 1 ELSE 0]
    /\ alive = [p \in Parkers |-> TRUE]
    /\ \E d \in 1..MaxDuration :
          waiter = [p \in Parkers |->
                     IF p \in Solo
                     THEN [WaiterInit EXCEPT !.pc = "clock", !.mode = "until",
                                             !.deadline = d, !.lastLoad = 1]
                     ELSE WaiterInit]
    /\ waker = [p \in Parkers |-> WakerInit]
    /\ qlock = NoHolder
    /\ inQueue = [p \in Parkers |-> p \in Solo]
    /\ now = 0
    /\ timeBits \in {NarrowBits, WideBits}
    /\ wakeAt = [p \in Parkers |-> -1]
    /\ data = [p \in Parkers |-> 0]
    /\ rel = [p \in Parkers |-> 0]
    /\ lockView = [p \in Parkers |-> 0]
    /\ unlocked = [p \in Parkers |-> FALSE]
    /\ uaf = FALSE

NextT == \E p \in Solo : ParkUntilNow(p)

SpecT == InitT /\ [][NextT]_vars

\* One parker that stays alive, with the calls the contract leaves out:
\* unpark_lock and unpark on a parker that has no waiter, park and
\* park_until on a fresh parker.
NextU ==
    \/ \E p \in Solo :
          \/ WaiterStep(p)
          \/ WakerStep(p)
          \/ Interrupt(p) \/ FutexTimeout(p)
          \/ KLockIdle(p) \/ ParkFreshPark(p) \/ ParkFreshUntil(p)
    \/ Tick

InitU == InitWith({NarrowBits, WideBits}, 1)

SpecU == InitU /\ [][NextU]_vars

\* The steps of a thread inside park or park_until.
ParkStep(p) ==
    \/ ParkLoad(p) \/ ParkUntilLoad(p) \/ ParkUntilNow(p)
    \/ FutexWait(p) \/ FutexWaitReturn(p)

\* Fair scheduling: a thread that can take a step of park or park_until, or
\* of the timed_out() check that follows a false return, eventually takes it;
\* a waker that holds the queue lock or a handle goes on to release the one
\* and consume the other; the clock advances and an expired kernel timer
\* fires.  Whether a waiter starts a cycle, whether a waker ever starts, and
\* whether a signal interrupts a wait, is left open.
Fairness ==
    /\ \A p \in Solo : WF_vars(ParkStep(p))
    /\ \A p \in Solo : WF_vars(WRelock(p) \/ TimedOut(p) \/ WConclude(p))
    /\ \A p \in Solo : WF_vars(KWrite(p) \/ UnparkLock(p) \/ KUnlock(p) \/ Unpark(p))
    /\ \A p \in Solo : WF_vars(FutexTimeout(p))
    /\ WF_vars(Tick)

LiveSpec == Spec /\ Fairness

\* NParkers parkers, each parked once with park() by a waiter of its own and
\* woken by a waker of its own, in any order.
InitN == InitWith({WideBits}, 1)

NextN ==
    \E p \in Parkers :
        \/ WLock(p) \/ PreparePark(p) \/ EnqueuePark(p)
        \/ ParkLoad(p) \/ FutexWait(p) \/ FutexWaitReturn(p) \/ WRead(p)
        \/ Interrupt(p)
        \/ WakerStep(p)

SpecN == InitN /\ [][NextN]_vars

\* Fair scheduling of the threads inside park and of the wakers that hold
\* the queue lock or a handle.
FairnessN ==
    /\ \A p \in Parkers : WF_vars(ParkStep(p))
    /\ \A p \in Parkers : WF_vars(KUnlock(p) \/ Unpark(p))

LiveSpecN == SpecN /\ FairnessN

\* ===================================================================
\* C1  No lost wakeup: a waiter that called prepare_park and is inside
\* park() when its waker has run unpark_lock (the waker going on to call
\* unpark) eventually returns from park, for every parker and every order
\* of wakes.
InPark(p) ==
    /\ waiter[p].mode = "park"
    /\ waiter[p].pc \in {"load", "wait", "blocked", "woke"}

C1_NoLostWakeup ==
    \A p \in Parkers : (InPark(p) /\ unlocked[p]) ~> (waiter[p].result = "true")

\* Every parker's waiter has returned from park, one of them after sleeping
\* in the kernel and being woken by its waker's unpark.
C1_Witness ==
    /\ \A p \in Parkers : waiter[p].result = "true" /\ unlocked[p]
    /\ \E p \in Parkers : waker[p].wakeRet = "1"

\* ===================================================================
\* C2  park returns only after its own load of the parking word observed
\* 0, whatever the backend wait's outcome was; so a park that returned was
\* preceded, in its cycle, by unpark_lock.
C2_ParkReturnsOnZero ==
    \A p \in Parkers :
        (waiter[p].mode \in {"park", "fallback"} /\ waiter[p].result = "true")
            => (waiter[p].lastLoad = 0 /\ unlocked[p])

\* park has returned after its waiter slept in the kernel and was woken by
\* unpark.
C2_Witness ==
    \E p \in Parkers :
        /\ waiter[p].mode = "park" /\ waiter[p].pc = "ret"
        /\ waiter[p].result = "true"
        /\ waker[p].pc = "idle" /\ waker[p].wakeRet = "1"

\* ===================================================================
\* C3 as stated: at the moment park_until returns false the parking word
\* is still nonzero.
C3_Original ==
    \A p \in Parkers :
        (waiter[p].pc = "ret" /\ waiter[p].result = "false") => futex[p] # 0

\* C3 amended: when park_until returns false the word it last loaded was
\* nonzero; the word itself is 0 by then exactly when unpark_lock ran after
\* that load.
C3_Amended ==
    \A p \in Parkers :
        (waiter[p].pc = "ret" /\ waiter[p].result = "false")
            => (waiter[p].lastLoad # 0 /\ (futex[p] = 0 <=> unlocked[p]))

\* park_until has returned false although unpark_lock already stored 0.
C3_Witness ==
    \E p \in Parkers :
        /\ waiter[p].pc = "ret" /\ waiter[p].result = "false"
        /\ unlocked[p] /\ futex[p] = 0

\* ===================================================================
InParkUntil(p) ==
    /\ waiter[p].mode = "until"
    /\ waiter[p].pc \in {"load", "clock", "wait", "blocked", "woke"}

\* The whole-seconds count of the duration d is within the signed time_t.
Fits(d) == as_secs(d) < 2 ^ (timeBits - 1)

Representable(p) ==
    waiter[p].deadline <= now \/ Fits(waiter[p].deadline - now)

\* park_until returns false only on a clock read at or after the deadline;
\* a park_until that returned in a cycle without unpark_lock returned false,
\* and the timed_out() that follows returns true.
C4_Safety ==
    \A p \in Parkers :
        /\ waiter[p].result = "false"
             => /\ waiter[p].deadline <= waiter[p].nowRead
                /\ waiter[p].nowRead <= now
        /\ (waiter[p].mode = "until" /\ waiter[p].result # "none" /\ ~unlocked[p])
             => waiter[p].result = "false"
        /\ (waiter[p].tout # "none" /\ ~unlocked[p]) => waiter[p].tout = "true"

\* C4 as stated: park_until never returns false before the deadline, and
\* with prepare_park done and no unpark_lock every park_until returns false
\* and the timed_out() after it returns true.
C4_Original ==
    /\ []C4_Safety
    /\ \A p \in Parkers :
          InParkUntil(p) ~> (waiter[p].tout = "true" \/ unlocked[p])

\* C4 amended: the same, for a park_until whose remaining duration is
\* representable in the backend's time type (the others park indefinitely).
C4_Amended ==
    /\ []C4_Safety
    /\ \A p \in Parkers :
          (InParkUntil(p) /\ Representable(p))
              ~> (waiter[p].tout = "true" \/ unlocked[p])

\* park_until with a deadline in the future returned false with no
\* unpark_lock in the cycle, and timed_out() returned true.
C4_Witness ==
    \E p \in Parkers :
        /\ waiter[p].deadline > 0 /\ waiter[p].result = "false"
        /\ waiter[p].tout = "true" /\ ~unlocked[p]

\* ===================================================================
\* C5  timed_out(), called under the queue lock after park_until returned
\* false, returns false exactly when unpark_lock already ran in this cycle;
\* once it returned true no unpark_lock runs in the cycle.
C5_TimedOutDisambiguates ==
    \A p \in Parkers :
        waiter[p].tout # "none" => (waiter[p].tout = "false" <=> unlocked[p])

\* timed_out() returned false after a park_until that returned false: the
\* unpark raced with the timeout.
C5_Witness ==
    \E p \in Parkers :
        /\ waiter[p].result = "false" /\ waiter[p].tout = "false"
        /\ unlocked[p]

\* ===================================================================
\* C6  Whenever park_until's load of the word observes 0 it returns true,
\* also when the deadline has passed.
C6_WordBeforeDeadline ==
    \A p \in Parkers :
        (waiter[p].mode \in {"until", "fallback"} /\ waiter[p].lastLoad = 0)
            => waiter[p].result = "true"

\* park_until returned true on a deadline (0) that had passed before its
\* load.
C6_Witness ==
    \E p \in Parkers :
        /\ waiter[p].mode = "until" /\ waiter[p].deadline = 0
        /\ waiter[p].lastLoad = 0 /\ waiter[p].result = "true"

\* ===================================================================
\* C7  The waiter that returned from park, or from park_until with true,
\* reads the value its waker wrote before unpark_lock, in every cycle.
C7_NoMissedWrite ==
    \A p \in Parkers :
        (waiter[p].pc = "done" /\ waiter[p].result = "true")
            => (waiter[p].seen = data[p] /\ data[p] > 0)

\* The waiter read the value of the second cycle's write.
C7_Witness ==
    \E p \in Parkers :
        /\ waiter[p].pc = "done" /\ waiter[p].result = "true"
        /\ waiter[p].seen = 2

\* ===================================================================
\* A step of unpark: the waker consumes its handle.
UnparkStep(p) == waker[p].pc = "handle" /\ waker'[p].pc = "idle"

\* C8  No thread dereferences a freed parker; unpark leaves the parking
\* words and the parker's memory alone, and on a freed parker it changes
\* nothing but the waker's own state.
C8_HandleLifetime ==
    /\ [](~uaf)
    /\ [][\A p \in Parkers :
            UnparkStep(p) =>
                /\ futex' = futex /\ alive' = alive /\ uaf' = uaf
                /\ ~alive[p] => waiter' = waiter]_vars

\* unpark ran on a parker that its waiter had already freed, and the
\* backend reported the invalid address.
C8_Witness ==
    \E p \in Parkers :
        /\ ~alive[p] /\ waker[p].pc = "idle" /\ waker[p].wakeRet = "EFAULT"

\* ===================================================================
\* C9  Once park_until took the overflow fallback it never returns false
\* and raises no error, and it returns true only after unpark_lock made the
\* word 0.
C9_OverflowFallback ==
    \A p \in Parkers :
        waiter[p].mode = "fallback"
            => /\ waiter[p].result # "false"
               /\ waiter[p].pc # "panicked"
               /\ waiter[p].result = "true"
                    => (unlocked[p] /\ waiter[p].lastLoad = 0)

\* The fallback is still parked after the deadline has passed.
C9_Witness ==
    \E p \in Parkers :
        /\ waiter[p].mode = "fallback" /\ waiter[p].pc = "blocked"
        /\ waiter[p].deadline <= now

\* ===================================================================
\* C10  A park_until that has not taken the overflow fallback and whose
\* deadline the clock has reached returns false, unless unpark_lock runs,
\* whatever spurious wakes occur.
C10_BoundedBlocking ==
    \A p \in Parkers :
        (InParkUntil(p) /\ waiter[p].deadline <= now)
            ~> (waiter[p].result = "false" \/ unlocked[p])

\* park_until returned false, with no unpark_lock, on a deadline that was
\* armed as a timed wait.
C10_Witness ==
    \E p \in Parkers :
        /\ waiter[p].pc = "ret" /\ waiter[p].result = "false"
        /\ ~unlocked[p] /\ waiter[p].deadline > 0

\* -------------------------------------------------------------------- C11
\* C11: unpark_lock followed by unpark on a parker that has no blocked
\* waiter, because it never parked or was unparked already, is a no-op and
\* not an error: once the call is over and the waiter has not moved, the
\* word is 0 and no thread was woken; and the second such call in a row
\* leaves the parker exactly as the first one left it.
C11_UnparkOfNothing ==
    \A p \in Solo :
        (/\ waker[p].idleCalls > 0
         /\ waker[p].pc = "idle"
         /\ waiter[p] = waker[p].snap[5])
        => /\ futex[p] = 0
           /\ waker[p].wakeRet = "0"
           /\ waker[p].idleCalls >= 2 => ParkerState(p) = waker[p].snap

\* A waiter that was parked and unparked, and two more unpark_lock + unpark
\* on its parker after that.
C11_Witness ==
    \E p \in Solo :
        /\ waker[p].idleCalls = 2
        /\ waker[p].pc = "idle"
        /\ waiter[p].pc = "done"
        /\ waiter[p].result = "true"
        /\ waiter[p] = waker[p].snap[5]
        /\ ParkerState(p) = waker[p].snap

\* -------------------------------------------------------------------- C12
\* C12: a parker just constructed has the word 0, so timed_out() is false
\* on it; after prepare_park the word is 1 and timed_out() is true; hence a
\* park_until that follows prepare_park and meets no unpark_lock returns
\* only once its clock read has reached the deadline, returns false with
\* the word still 1, and the timed_out() check after it says true.
\* (AfterCall: the waiter is past its call and its parker still the same.)
AfterCall(p) ==
    waiter[p].pc \in {"ret", "relocked", "checked", "raced", "done"}

C12_InitialState ==
    \A p \in Solo :
        /\ waiter[p].pc = "idle" =>
              futex[p] = 0 /\ ~TimedOutValue(futex[p])
        /\ waiter[p].pc = "prepared" =>
              futex[p] = 1 /\ TimedOutValue(futex[p])
        /\ (AfterCall(p) /\ waiter[p].mode = "until"
              /\ waiter[p].result # "none" /\ ~unlocked[p]) =>
              /\ waiter[p].result = "false"
              /\ waiter[p].deadline <= waiter[p].nowRead
              /\ futex[p] = 1
        /\ (waiter[p].tout # "none" /\ ~unlocked[p]) => waiter[p].tout = "true"

\* The first cycle of a parker: prepare_park, park_until with a deadline
\* ahead, no unpark_lock, and false returned with the deadline reached.
C12_Witness ==
    \E p \in Solo :
        /\ waiter[p].cyclesLeft = MaxCycles - 1
        /\ waiter[p].pc = "ret"
        /\ waiter[p].result = "false"
        /\ waiter[p].deadline > 0
        /\ waiter[p].nowRead >= waiter[p].deadline
        /\ ~unlocked[p]
        /\ futex[p] = 1

PreparesPark(p) == waiter[p].pc = "locked" /\ waiter'[p].pc = "prepared"
UnparkLocks(p) == waker[p].pc = "wrote" /\ waker'[p].pc = "handle_locked"
Constructs(p) == waiter[p].pc = "freed" /\ waiter'[p].pc = "idle"

\* The word is 0 or 1; it changes only to 1 by prepare_park and to 0 by
\* unpark_lock (new puts a fresh word, 0, in its place); so park,
\* park_until, timed_out, the backend wait, unpark and thread_yield leave
\* it as it is.
WordRules(p) ==
    /\ futex[p] \in {0, 1}
    /\ futex'[p] \in {0, 1}
    /\ futex'[p] # futex[p] =>
          \/ PreparesPark(p) /\ futex'[p] = 1
          \/ UnparkLocks(p) /\ futex'[p] = 0
          \/ Constructs(p) /\ futex'[p] = 0

\* C14 as stated: the rules of the word, and within every park cycle that
\* follows the contract the word goes 0 -> 1 -> 0 exactly once:
\* prepare_park finds it 0, unpark_lock finds it 1, and the cycle ends with
\* the word back at 0.
C14_Original ==
    [][\A p \in Solo :
          /\ WordRules(p)
          /\ PreparesPark(p) => futex[p] = 0
          /\ UnparkLocks(p) => futex[p] = 1
          /\ waiter'[p].pc = "done" => futex'[p] = 0]_vars

\* C14, amended: the rules of the word; unpark_lock runs at most once in a
\* cycle and finds the word 1; a cycle ends with the word 0 exactly when
\* unpark_lock ran in it, and with the word still 1 when it ended by a
\* genuine timeout, so that the next prepare_park stores 1 over 1.
C14_Amended ==
    [][\A p \in Solo :
          /\ WordRules(p)
          /\ UnparkLocks(p) => futex[p] = 1 /\ ~unlocked[p]
          /\ waiter'[p].pc = "done" => (futex'[p] = 0 <=> unlocked'[p])
          /\ (PreparesPark(p) /\ futex[p] = 1) => ~unlocked[p]]_vars

\* The second cycle of a parker ends by a genuine timeout, the word still 1.
C14_Witness ==
    \E p \in Solo :
        /\ waiter[p].pc = "done"
        /\ waiter[p].tout = "true"
        /\ waiter[p].cyclesLeft = MaxCycles - 2
        /\ futex[p] = 1
        /\ ~unlocked[p]

\* -------------------------------------------------------------------- C15
\* C15: the backend wait closes the race between park's check and its
\* blocking.  The kernel puts the thread to sleep only if the word is 1 at
\* the moment of its comparison; if unpark_lock stored 0 after the loop's
\* load of a nonzero word and before that comparison, the wait returns at
\* once (value changed), the loop loads the word again, finds 0 and
\* returns.
C15_CheckThenBlock ==
    [][\A p \in Solo :
          /\ (waiter[p].pc = "wait" /\ waiter'[p].pc = "blocked") =>
                futex[p] = 1
          /\ (waiter[p].pc = "wait" /\ waiter'[p].pc # "wait"
                /\ futex[p] = 0) =>
                /\ waiter[p].lastLoad = 1
                /\ unlocked[p]
                /\ waiter'[p].pc = "woke"
                /\ waiter'[p].r = "EAGAIN"
          /\ (waiter[p].pc = "woke" /\ waiter[p].r = "EAGAIN"
                /\ waiter'[p].pc # "woke") =>
                waiter'[p].pc = "load"
          /\ (waiter[p].pc = "load" /\ waiter'[p].pc # "load"
                /\ futex[p] = 0) =>
                /\ waiter'[p].pc = "ret"
                /\ waiter'[p].result = "true"]_vars

\* unpark_lock stored 0 between the load of 1 and the kernel's comparison:
\* the wait came back with "value changed".
C15_Witness ==
    \E p \in Solo :
        /\ waiter[p].pc = "woke"
        /\ waiter[p].r = "EAGAIN"
        /\ waiter[p].lastLoad = 1
        /\ futex[p] = 0
        /\ unlocked[p]

\* -------------------------------------------------------------------- C16
\* C16: every outcome of the backend is absorbed.  Whatever a wait comes
\* back with (success, value changed, interrupted, timed out), park and
\* park_until go on to check the word again; whatever a wake comes back
\* with (0 or 1 woken, invalid address), unpark completes; no debug
\* assertion fails, and in particular only a wait that was given a timeout
\* comes back timed out; nothing but park_until's boolean reaches the
\* caller.
C16_OutcomesAbsorbed ==
    [][\A p \in Solo :
          /\ waiter'[p].pc # "panicked"
          /\ waiter'[p].pc = "woke" =>
                /\ waiter'[p].r \in {"ok", "EAGAIN", "EINTR", "ETIMEDOUT"}
                /\ waiter'[p].r = "ETIMEDOUT" => is_some(waiter'[p].ts)
          /\ (waiter[p].pc = "woke" /\ waiter'[p].pc # "woke") =>
                /\ waiter'[p].pc = "load"
                /\ waiter'[p].result = "none"
          /\ waker'[p].wakeRet \in {"none", "0", "1", "EFAULT"}
          /\ (waker[p].pc = "handle" /\ waker'[p].pc # "handle") =>
                /\ waker'[p].pc = "idle"
                /\ waker'[p].wakeRet \in {"0", "1", "EFAULT"}
          /\ waiter'[p].result \in {"none", "true", "false"}
          /\ waiter'[p].result = "false" => waiter'[p].mode = "until"]_vars

\* A timed wait has come back timed out, after a wake on the freed
\* parker's address came back with "no such address".
C16_Witness ==
    \E p \in Solo :
        /\ waiter[p].pc = "woke"
        /\ waiter[p].r = "ETIMEDOUT"
        /\ is_some(waiter[p].ts)
        /\ waker[p].wakeRet = "EFAULT"

\* -------------------------------------------------------------------- C17
\* A timed wait of park_until: about to be issued, or issued and asleep.
TimedWait(p) ==
    /\ waiter[p].pc \in {"wait", "blocked"}
    /\ is_some(waiter[p].ts)

\* C17 as stated: every timed wait is given the strictly positive duration
\* deadline - now of its own iteration's clock read; no wait is issued
\* once the clock has reached the deadline; and no wait is armed to end
\* later than the deadline.
C17_Original ==
    \A p \in Solo :
        /\ TimedWait(p) =>
              /\ TimeoutTicks(waiter[p].ts[1]) > 0
              /\ TimeoutTicks(waiter[p].ts[1]) =
                    waiter[p].deadline - waiter[p].nowRead
        /\ (TimedWait(p) /\ waiter[p].pc = "blocked") =>
              wakeAt[p] <= waiter[p].deadline

\* C17, amended: every timed wait is given the strictly positive duration
\* deadline - now of its own iteration's clock read, a read that had not
\* reached the deadline; counted from that read the wait ends at the
\* deadline.  The kernel counts it from the later moment the wait is
\* issued, so the wait is armed to end at the deadline or after it, by as
\* much as passed between the read and the issue.
C17_Amended ==
    \A p \in Solo :
        /\ TimedWait(p) =>
              /\ waiter[p].nowRead < waiter[p].deadline
              /\ waiter[p].nowRead <= now
              /\ TimeoutTicks(waiter[p].ts[1]) > 0
              /\ waiter[p].nowRead + TimeoutTicks(waiter[p].ts[1]) =
                    waiter[p].deadline
        /\ (TimedWait(p) /\ waiter[p].pc = "blocked") =>
              /\ wakeAt[p] >= waiter[p].deadline
              /\ wakeAt[p] <= now + TimeoutTicks(waiter[p].ts[1])

\* A wait re-armed from a later clock read and issued after the clock had
\* moved on: its timer ends after the deadline.
C17_Witness ==
    \E p \in Solo :
        /\ TimedWait(p)
        /\ waiter[p].pc = "blocked"
        /\ waiter[p].nowRead > 0
        /\ wakeAt[p] > waiter[p].deadline

\* -------------------------------------------------------------------- C18
\* A wake has reached a waiter whose word is 1 and whose cycle has had no
\* unpark_lock: the wake was a stale one, sent through a handle of an
\* earlier cycle or of an earlier parker at this address.
StaleWoken(p) ==
    /\ waiter[p].pc = "woke"
    /\ waiter[p].r = "ok"
    /\ futex[p] = 1
    /\ ~unlocked[p]

\* The waiter is inside park or park_until.
InCall(p) == waiter[p].pc \in {"load", "clock", "wait", "blocked", "woke"}

\* C18: a stale wake is harmless.  The waiter it reaches checks the word
\* again; it does not return early: park and park_until return true only
\* when the cycle's own unpark_lock has run and the word is 0; finding the
\* word still 1 it blocks again (unless its own unpark_lock or its deadline
\* comes first); and its own unpark_lock + unpark still bring it out of
\* the call.
C18_StaleWakeHarmless ==
    /\ [][\A p \in Solo :
             /\ (waiter[p].pc = "woke" /\ waiter[p].r = "ok"
                   /\ waiter'[p].pc # "woke") =>
                   waiter'[p].pc = "load"
             /\ (waiter[p].result = "none" /\ waiter'[p].result = "true") =>
                   unlocked[p] /\ futex[p] = 0]_vars
    /\ \A p \in Solo :
          StaleWoken(p) ~>
             (waiter[p].pc = "blocked" \/ unlocked[p]
                \/ waiter[p].result = "false")
    /\ \A p \in Solo :
          (InCall(p) /\ unlocked[p]) ~> (waiter[p].result # "none")

\* A stale wake has reached the waiter of a later cycle.
C18_Witness ==
    \E p \in Solo :
        /\ StaleWoken(p)
        /\ waiter[p].cyclesLeft < MaxCycles - 1

\* -------------------------------------------------------------------- C19
\* C19: while a waiter sleeps in the backend wait with its word 0, an
\* Unpark Handle for its parker is still live: unpark_lock has run and the
\* unpark that consumes its handle has not.  A sleeping waiter, a word of
\* 0 and no wake to come do not occur together.
C19_PendingWake ==
    \A p \in Solo :
        (waiter[p].pc = "blocked" /\ futex[p] = 0) =>
            /\ unlocked[p]
            /\ waker[p].pc \in {"handle_locked", "handle"}

\* The waiter went to sleep on the word 1; unpark_lock has stored 0 and
\* the waker, out of the queue lock, holds the handle.
C19_Witness ==
    \E p \in Solo :
        /\ waiter[p].pc = "blocked"
        /\ futex[p] = 0
        /\ waker[p].pc = "handle"

\* -------------------------------------------------------------------- C20
\* The waiter is at the first load of the word in its call of park or
\* park_until.
FirstLoad(p) == waiter[p].pc = "load" /\ waiter[p].lastLoad = -1

\* C20: the fast path.  At the first load of a call no backend wait has
\* been issued and the clock has not been read; if the word is 0 at that
\* load, because the parker is fresh and prepare_park was not called or
\* because unpark_lock ran before the waiter reached its call, park returns
\* and park_until returns true from that very step: no backend wait is
\* issued and the clock is not read, whatever the deadline, an elapsed one
\* included.
C20_FastPath ==
    [][\A p \in Solo :
          /\ (waiter'[p].pc = "load" /\ waiter'[p].lastLoad = -1) =>
                /\ waiter'[p].nowRead = -1
                /\ waiter'[p].ts = None
                /\ waiter'[p].r = "none"
                /\ wakeAt'[p] = -1
          /\ (FirstLoad(p) /\ futex[p] = 0 /\ waiter'[p] # waiter[p]) =>
                /\ waiter'[p].pc = "ret"
                /\ waiter'[p].result = "true"
                /\ waiter'[p].lastLoad = 0
                /\ waiter'[p].nowRead = -1
                /\ waiter'[p].ts = None
                /\ wakeAt'[p] = -1]_vars

\* park_until on a fresh parker, with no prepare_park and a deadline
\* already past, has returned true without a read of the clock.
C20_Witness ==
    \E p \in Solo :
        /\ waiter[p].pc = "ret"
        /\ waiter[p].result = "true"
        /\ waiter[p].mode = "until"
        /\ waiter[p].deadline < now
        /\ waiter[p].nowRead = -1
        /\ waiter[p].lastLoad = 0
        /\ ~unlocked[p]
        /\ ~inQueue[p]
        /\ futex[p] = 0

====
